---- MODULE Spec2Model ----
(***************************************************************************)
(* Autobase agent: the agent-side command channel (WebSocketClient), the   *)
(* command dispatcher and session cache (CommandExecutor), the credential  *)
(* store (AccountManager) and the caller-side bridge (RemoteSteamClient).  *)
(***************************************************************************)
EXTENDS Integers, Sequences, FiniteSets, TLC

(* ------------------------------ bounds --------------------------------- *)
\* number of messages the gateway delivers to the agent on the connection
MaxCmds == 2
\* number of edits of accounts.json made from the GUI thread
MaxEdits == 1
\* number of commands the callers publish in total
MaxRequests == 2
\* largest command_timeout a caller is constructed with, in seconds
MaxTimeout == 6

(* ----------------------------- constants ------------------------------- *)
\* range(1, 6): the retry loops make attempts 1..5
MaxAttempts == 5

\* the logins that have an entry in accounts.json: set_account stores an
\* entry under login.lower()
Logins == {"vasya", "petya"}
\* the account_login values of commands: a login as stored, or spelled with
\* a capital letter
Spellings == Logins \cup {"Vasya"}
\* login.lower(): the key under which AccountManager looks a login up
lower(login) == IF login = "Vasya" THEN "vasya" ELSE login
\* Python None / a key that is missing from a dict
None == "None"
RequestIds == {"A"}

\* cmd values routed by execute_command, in the order of its if/elif chain
RetriedCmds == {"get_my_inventory", "get_partner_inventory", "get_wallet_balance"}
ValidatedCmds == {"get_partner_inventory", "make_offer_with_url", "market_fetch_price",
                  "market_create_sell_order", "market_cancel_sell_order",
                  "market_cancel_buy_order"}
SingleCallCmds == {"is_session_alive", "make_offer_with_url", "market_fetch_price",
                   "market_create_sell_order", "market_cancel_sell_order",
                   "market_cancel_buy_order", "market_get_my_buy_orders",
                   "market_get_my_sell_listings", "market_get_my_recent_sell_listings",
                   "market_get_my_market_listings", "market_get_history",
                   "get_session_id"}
KnownCmds == RetriedCmds \cup SingleCallCmds

\* a cmd value the dispatcher has no branch for
UnknownCmd == "get_trade_offers"

\* the cmd values of the frames the gateway delivers: the retried handlers
\* (one of them with an argument check), a single-call handler, a
\* single-call handler with an argument check
SampleCmds == {"get_my_inventory", "get_partner_inventory", "get_wallet_balance",
               "is_session_alive", "market_fetch_price"}

(* --------------------------- value domains ------------------------------ *)
\* the JSON text of one inbound frame, by what json.loads and the
\* dispatcher read from it; decodes = FALSE: json.loads raises, or the value
\* is not an object and command.get raises
Commands ==
    \* well-formed commands, with arguments that pass or fail the handler's check
    [decodes : {TRUE}, cmd : SampleCmds, account_login : Logins,
     args : {"valid"}, request_id : RequestIds]
    \cup
    [decodes : {TRUE}, cmd : SampleCmds \cap ValidatedCmds, account_login : Logins,
     args : {"invalid"}, request_id : RequestIds]
    \cup
    \* a cmd without branch, a missing cmd, a missing account_login
    [decodes : {TRUE}, cmd : {UnknownCmd, None}, account_login : Logins,
     args : {"valid"}, request_id : RequestIds]
    \cup
    [decodes : {TRUE}, cmd : {"is_session_alive"}, account_login : {None},
     args : {"valid"}, request_id : RequestIds]
    \cup
    \* a login spelled otherwise than its accounts.json entry
    [decodes : {TRUE}, cmd : {"is_session_alive"},
     account_login : Spellings \ Logins,
     args : {"valid"}, request_id : RequestIds]
    \cup
    \* commands without request_id
    [decodes : {TRUE}, cmd : {"is_session_alive", None}, account_login : Logins,
     args : {"valid"}, request_id : {None}]
Undecodable ==
    [decodes |-> FALSE, cmd |-> None, account_login |-> None,
     args |-> "valid", request_id |-> None]
Messages == Commands \cup {Undecodable}
NoCmd == Undecodable

\* a SteamClient object: id names the object, origin how it was built,
\* probe the outcome of the last is_session_alive call made on it
NoClient == [id |-> 0, origin |-> "none", probe |-> "none"]
ProbeOutcomes == {"alive", "dead", "raise"}

\* an accounts.json entry: present when the login has an entry;
\* login_cookies is << >> for None and <<j>> for the cookie dict of session j.
\* The password, mafile_path and api_key values of the entry are not kept
\* here: every get_* call re-reads the file, which the GUI thread rewrites on
\* its own, so what a call returns is an input of read_creds (FieldReads)
NoCookies == << >>
PriorCookies == <<0>>
NoAccount == [present |-> FALSE, login_cookies |-> NoCookies]
Account(cookies) == [present |-> TRUE, login_cookies |-> cookies]

\* what get_password, get_mafile_path and get_api_key return for an existing
\* entry (TRUE: a truthy value): at most one of them missing or empty
FieldReads == {<<TRUE, TRUE, TRUE>>, <<FALSE, TRUE, TRUE>>,
               <<TRUE, FALSE, TRUE>>, <<TRUE, TRUE, FALSE>>}

\* what reading the maFile from disk gives
MaFileStates == {"ok", "missing", "unreadable", "no_steamid",
                 "no_shared_secret", "no_identity_secret"}
\* what proxy_manager.get_proxy_for_login gives
ProxyStates == {"direct", "proxy", "raise"}

\* the steps of SteamClient.login -> LoginExecutor.login, in call order:
\* the warm-up requests and the RSA key request of _fetch_rsa_params, the
\* credential submission of _send_login_request, then _update_stem_guard,
\* _pool_sessions_steam, _finalize_login, _setstokens, set_sessionid_cookies
LoginSteps == <<"warmup", "rsa", "submit", "guard", "poll", "finalize",
                "settokens", "sessionid">>

\* maximal_number_of_repetitions of _fetch_rsa_params
MaxRepetitions == 5

\* the x-eresult header of the credential submission's response: None when
\* the header is absent or empty, else its text
Headers == {None, "1", "4", "5", "109", "abc"}

\* the header texts int() accepts, and the integers it gives; on any other
\* text int() raises ValueError
Numeric(text) == text \in {"1", "4", "5", "109"}
int(text) ==
    CASE text = "1" -> 1
      [] text = "4" -> 4
      [] text = "5" -> 5
      [] text = "109" -> 109

\* the x values of the errors list: 1..108 without 4
errors == (1 .. 108) \ {4}

\* the exception that ended client.login: kind names the raise statement,
\* code is the eResult in its message (0: the message has none)
LoginError(kind, code) == [kind |-> kind, code |-> code]
NoLoginError == LoginError("none", 0)

\* result payloads: json.dumps accepts "json" and raises on "non_json"
Payloads == {"json", "non_json"}

NoResponse == [status |-> "none", message |-> "none", result |-> "none",
               request_id |-> "none"]
\* a handler's result dict; it has no request_id key yet
Result(status, message, payload) ==
    [status |-> status, message |-> message, result |-> payload,
     request_id |-> "absent"]

\* per-command counters (history of the command being executed).
\* called: _get_steam_client was entered; hit: a handle was cached for the
\* login and its probe returned alive;
\* got: it returned a client;
\* net: a network request was made; probes, rsa, cred, calls: the
\* is_session_alive calls of _get_steam_client, RSA key fetches, credential
\* submissions and handler remote calls made;
\* resumes, logins: cookie resumptions and full logins started;
\* resumeLive: the probe of the client built from cookies returned alive;
\* absent: accounts.json had no entry for the login when _get_steam_client
\* was entered;
\* sleeps: the asyncio.sleep arguments of the retry loop, in order;
\* reps: _fetch_rsa_params' current_number_of_repetitions; xer: the x-eresult
\* header _send_login_request read ("unread": none yet); lerr: the exception
\* that ended client.login;
\* token: self.refresh_token as _pool_sessions_steam set it; fin: finalizelogin
\* requests sent; sid, sidEnd: whether the sessionid cookie was there when
\* _finalize_login and set_sessionid_cookies read it;
\* inflight: per login, the cookie resumptions and full logins started and
\* not yet ended; using: per login, the commands that hold the login's
\* handle (from its probe or its creation to the handler's return)
NoCounters ==
    [called |-> FALSE, hit |-> FALSE, got |-> FALSE, probes |-> 0,
     net |-> FALSE, rsa |-> 0, cred |-> 0, logins |-> 0, resumes |-> 0,
     resumeLive |-> FALSE, absent |-> FALSE, calls |-> 0, sleeps |-> << >>,
     reps |-> 0, xer |-> "unread", lerr |-> NoLoginError, evicted |-> FALSE,
     token |-> "unread", fin |-> 0, sid |-> "unread", sidEnd |-> "unread",
     http |-> 0, exc |-> "none",
     inflight |-> [l \in Spellings |-> 0], using |-> [l \in Spellings |-> 0]]

(* ------------------------------- state ---------------------------------- *)
VARIABLES
    pc,             \* position of the listen loop / execute_command coroutine
    cur,            \* the command being executed
    client,         \* execute_command's steam_client
    steam_clients,  \* CommandExecutor.steam_clients
    accounts,       \* the content of accounts.json
    attempt,        \* the retry loops' attempt
    lstep,          \* index in LoginSteps of the next login step
    response,       \* the response dict being returned / sent
    nRecv,          \* number of frames received on the connection
    g,              \* counters of the running _get_steam_client call, then (from
                    \* route on) of the running handler
    prev,           \* (login, handle id) of the previous _get_steam_client call when
                    \* it returned a handle, else NoPrev
    nEdits,         \* number of accounts.json edits made so far
    sent            \* what the agent put on the websocket: the kind of frame
                    \* the last step sent, and the manifests sent so far

(* state of the WebSocketClient object, of the Agent.stop coroutine, and the
   status notifications delivered to Agent._on_connection_status_changed *)
VARIABLES
    is_running,     \* WebSocketClient.is_running
    websocket,      \* WebSocketClient.websocket: None, or the connection
                    \* ("open", or "closing" once close() was called on it)
    status,         \* the notifications delivered: the last one, and how
                    \* many carried connected=True and connected=False
    spc,            \* where Agent.stop is ("idle": not called)
    logged_out      \* ids of the SteamClient objects cleanup called logout on

socketVars == <<is_running, websocket, status, spc, logged_out>>

(* state of the caller side: RemoteSteamClient objects and the Redis server *)
VARIABLES
    bpc,            \* where each caller is in _send_command_and_wait
    brid,           \* each caller's request_id (0: none yet)
    btimeout,       \* each RemoteSteamClient's command_timeout
    bwaited,        \* seconds each caller has been blocked in blpop
    bgot,           \* the response each caller's blpop returned
    slots,          \* the Redis lists: key -> queued responses
    channel,        \* payloads published on to_agent_gateway, not yet answered
    nextUuid        \* number of uuid4 values drawn so far

(* state of RedisManager in one process, and of the threads calling get_pool *)
VARIABLES
    instances,      \* RedisManager._instances: pid -> ConnectionPool
    lock,           \* the thread holding RedisManager._lock (0: free)
    tpc,            \* where each thread is in get_pool
    returned,       \* the pool each thread's last call returned
    path,           \* how each thread's current or last call went
    ncalls,         \* get_pool calls each thread has made
    created,        \* ConnectionPool objects constructed in this process
    current_pid,    \* os.getpid() of the process followed
    inherited,      \* the entries the process got from its parent by fork
    asked           \* host, port and db of each thread's current or last call

poolVars == <<instances, lock, tpc, returned, path, ncalls, created,
              current_pid, inherited, asked>>

(* state of one SteamMarket.get_my_sell_listings call, and of Steam's side *)
VARIABLES
    mpc,            \* where the call is
    mattempt,       \* attempt of `for attempt in range(max_retries)`
    market,         \* Steam's side: the account's listings, and how many of
                    \* them the /market page shows
    n_showing,      \* parsed from the /market page
    n_total,        \* parsed from the /market page
    page_i,         \* i of `for i in range(0, n_total, 100)`
    listings,       \* listings["sell_listings"]: the listing ids it holds
    sell_listings,  \* the function's sell_listings
    reqs            \* requests made by the call, and by its current pass

marketVars == <<mpc, mattempt, market, n_showing, n_total, page_i, listings,
                sell_listings, reqs>>

(* state of one SteamMarket.create_buy_order call *)
VARIABLES
    opc,            \* where the call is
    steam_guard,    \* whether self._steam_guard is set
    first,          \* the response to the first createbuyorder request
    oresponse,      \* create_buy_order's response
    confirmation,   \* data["confirmation"]
    confirmed,      \* what confirm_by_id did ("none": not called)
    posts           \* createbuyorder requests sent

orderVars == <<opc, steam_guard, first, oresponse, confirmation, confirmed, posts>>

callerVars == <<bpc, brid, btimeout, bwaited, bgot, slots, channel, nextUuid>>
bridgeVars == <<callerVars, poolVars, marketVars, orderVars>>

agentVars == <<pc, cur, client, steam_clients, accounts, attempt, lstep,
               response, nRecv, g, prev, nEdits, sent, socketVars>>
vars == <<agentVars, bridgeVars>>

NoPrev == [login |-> None, id |-> 0]

\* accounts.json when the agent starts: both logins have an entry, vasya's
\* holds the cookies an earlier run persisted, petya's holds none
InitialAccounts ==
    [l \in Logins |-> IF l = "vasya" THEN Account(PriorCookies)
                                      ELSE Account(NoCookies)]

\* nothing was sent yet
NoneSent == [last |-> "none", manifests |-> 0]

\* a step that sends a frame of the given kind on the websocket
Sends(kind) ==
    sent' = [last |-> kind,
             manifests |-> IF kind = "manifest"
                           THEN sent.manifests + 1 ELSE sent.manifests]

\* a step that sends nothing
Silent == sent' = [sent EXCEPT !.last = "none"]

\* no status notification was delivered yet
NoStatus == [last |-> "none", trues |-> 0, falses |-> 0]

\* self.on_status_change_callback(connected)
on_status_change_callback(st, connected) ==
    [last |-> IF connected THEN "True" ELSE "False",
     trues |-> IF connected THEN st.trues + 1 ELSE st.trues,
     falses |-> IF connected THEN st.falses ELSE st.falses + 1]

\* WebSocketClient.__init__, and Agent.stop not called
SocketInit ==
    /\ is_running = FALSE
    /\ websocket = None
    /\ status = NoStatus
    /\ spc = "idle"
    /\ logged_out = {}

AgentInit ==
    /\ pc = "connect"
    /\ cur = NoCmd
    /\ client = NoClient
    /\ steam_clients = [l \in Spellings |-> NoClient]
    /\ accounts = InitialAccounts
    /\ attempt = 0
    /\ lstep = 0
    /\ response = NoResponse
    /\ nRecv = 0
    /\ g = NoCounters
    /\ prev = NoPrev
    /\ nEdits = 0
    /\ sent = NoneSent
    /\ SocketInit

\* a per-login count goes up or down by one
Inc(count, login) == [count EXCEPT ![login] = @ + 1]
Dec(count, login) == [count EXCEPT ![login] = @ - 1]

\* the counters kept of a _get_steam_client call once it has returned
Ended(c) ==
    [NoCounters EXCEPT !.called = c.called, !.got = c.got, !.net = c.net,
                       !.resumes = c.resumes, !.logins = c.logins,
                       !.resumeLive = c.resumeLive, !.absent = c.absent,
                       !.evicted = c.evicted,
                       !.inflight = c.inflight, !.using = c.using]

(* ------------------ CommandExecutor.execute_command --------------------- *)
\* (mutant) the response is stamped with a key the command does not carry
Stamp_None(result, command) == [result EXCEPT !.request_id = None]

\* result["request_id"] = request_id, and the request_id of the early and
\* the except returns
Stamp(result, command) == [result EXCEPT !.request_id = command.request_id]

\* execute_command returns result to _listen_loop
Return(result) ==
    /\ response' = result
    /\ pc' = "reply"

\* _get_steam_client returns None or raises: its locals are dropped
Failed(result) ==
    /\ Return(result)
    /\ client' = NoClient
    /\ lstep' = 0
    /\ prev' = NoPrev

\* execute_command up to its first await: the cmd/login check, then
\* _get_steam_client's lookup in steam_clients
execute_command ==
    /\ pc = "execute"
    /\ IF cur.cmd = None \/ cur.account_login = None
       THEN /\ Return(Stamp(Result("error", "bad_command", "none"), cur))
            /\ g' = g
            /\ client' = client
       ELSE /\ pc' = IF steam_clients[cur.account_login] # NoClient
                     THEN "probe_cached" ELSE "read_creds"
            /\ client' = steam_clients[cur.account_login]
            /\ g' = [g EXCEPT !.called = TRUE,
                              !.absent = ~accounts[lower(cur.account_login)].present,
                              !.using = IF steam_clients[cur.account_login] # NoClient
                                        THEN Inc(@, cur.account_login) ELSE @]
            /\ response' = response
    /\ UNCHANGED <<cur, steam_clients, accounts, attempt, lstep,
                   nRecv, prev, nEdits>>
    /\ Silent
    /\ UNCHANGED <<socketVars, bridgeVars>>

\* steam_client is None: the "could not create client" response
NoClientResponse == Stamp(Result("error", "no_client", "none"), cur)
\* the except branch of execute_command: message = str(e)
ExceptionResponse == Stamp(Result("error", "exception", "none"), cur)

(* ----------------- CommandExecutor._get_steam_client -------------------- *)
Probed(c, outcome) == [c EXCEPT !.probe = outcome]

\* (mutant) the test on is_alive inverted
KeepCached_inverted(outcome) == outcome # "alive"

\* `if is_alive: return client`, else and on an exception the entry is deleted
KeepCached(outcome) == outcome = "alive"

\* (mutant) the client built from cookies is cached whatever the probe says
CacheResumed_always(outcome) == TRUE

\* `if is_alive:` after the probe of the client built from cookies; an
\* exception of the probe is caught and the full login follows
CacheResumed(outcome) == outcome = "alive"

\* (mutant) persisted cookies are never used
UseCookies_never(login_cookies) == FALSE

\* `if login_cookies is not None`
UseCookies(login_cookies) == login_cookies # NoCookies

\* (mutant) the entry of the login stays in the dictionary
Evicted_kept(cache, login) == cache

\* del self.steam_clients[login]
Evicted(cache, login) == [cache EXCEPT ![login] = NoClient]

\* the cached handle is probed: alive returns it, dead or raising evicts
\* it. When cleanup has emptied the dictionary during the probe, `del`
\* raises KeyError, which execute_command answers with an error
probe_cached ==
    /\ pc = "probe_cached"
    /\ \E outcome \in ProbeOutcomes :
         LET login == cur.account_login
             c == Probed(client, outcome)
             g1 == [g EXCEPT !.probes = @ + 1, !.net = TRUE,
                             !.hit = (outcome = "alive")]
         IN IF KeepCached(outcome)
            THEN /\ steam_clients' = IF steam_clients[login] # NoClient
                                     THEN [steam_clients EXCEPT ![login] = c]
                                     ELSE steam_clients
                 /\ client' = c
                 /\ pc' = "route"
                 /\ g' = [g1 EXCEPT !.got = TRUE]
                 /\ UNCHANGED <<lstep, response, prev>>
            ELSE IF steam_clients[login] = NoClient
            THEN /\ Failed(ExceptionResponse)
                 /\ steam_clients' = steam_clients
                 /\ g' = [g1 EXCEPT !.using = Dec(@, login)]
            ELSE /\ steam_clients' = Evicted(steam_clients, login)
                 /\ client' = NoClient
                 /\ pc' = "read_creds"
                 /\ g' = [g1 EXCEPT !.using = Dec(@, login),
                                    !.evicted = TRUE]
                 /\ UNCHANGED <<lstep, response, prev>>
    /\ UNCHANGED <<cur, accounts, attempt, nRecv, nEdits>>
    /\ Silent
    /\ UNCHANGED <<socketVars, bridgeVars>>

\* the checks of the account data and of the maFile, in the code's order;
\* TRUE when _get_steam_client returns None for a missing field
MissingCredential(password, mafile_path, api_key, mafile) ==
    \/ ~password
    \/ ~mafile_path
    \/ ~api_key
    \/ mafile = "missing"
    \/ mafile = "unreadable"
    \/ mafile \in {"no_steamid", "no_shared_secret", "no_identity_secret"}

\* the account data is read, the maFile is read and checked, the proxy is
\* looked up; with persisted cookies a client is built from them
read_creds ==
    /\ pc = "read_creds"
    /\ \E fields \in FieldReads :
       \E mafile \in IF fields = <<TRUE, TRUE, TRUE>> THEN MaFileStates ELSE {"ok"} :
       \E proxy \in IF mafile = "ok" THEN ProxyStates ELSE {"direct"} :
         LET account == accounts[lower(cur.account_login)]
             password == account.present /\ fields[1]
             mafile_path == account.present /\ fields[2]
             api_key == account.present /\ fields[3]
         IN IF MissingCredential(password, mafile_path, api_key, mafile)
            THEN /\ Failed(NoClientResponse)
                 /\ g' = g
            ELSE IF proxy = "raise"
            THEN /\ Failed(ExceptionResponse)
                 /\ g' = g
            ELSE IF UseCookies(account.login_cookies)
            THEN /\ client' = [id |-> 2 * nRecv - 1, origin |-> "cookies",
                               probe |-> "none"]
                 /\ pc' = "probe_cookies"
                 /\ g' = [g EXCEPT !.resumes = @ + 1,
                                   !.inflight = Inc(@, cur.account_login)]
                 /\ UNCHANGED <<lstep, response, prev>>
            ELSE /\ client' = [id |-> 2 * nRecv, origin |-> "login",
                               probe |-> "none"]
                 /\ pc' = "login"
                 /\ lstep' = 1
                 /\ g' = [g EXCEPT !.logins = @ + 1,
                                   !.inflight = Inc(@, cur.account_login)]
                 /\ UNCHANGED <<response, prev>>
    /\ UNCHANGED <<cur, steam_clients, accounts, attempt, nRecv,
                   nEdits>>
    /\ Silent
    /\ UNCHANGED <<socketVars, bridgeVars>>

\* the client built from the persisted cookies is probed: alive caches and
\* returns it, dead or raising starts the full login with a new client
probe_cookies ==
    /\ pc = "probe_cookies"
    /\ \E outcome \in ProbeOutcomes :
         LET login == cur.account_login
             c == Probed(client, outcome)
         IN IF CacheResumed(outcome)
            THEN /\ steam_clients' = [steam_clients EXCEPT ![login] = c]
                 /\ client' = c
                 /\ pc' = "route"
                 /\ g' = [g EXCEPT !.probes = @ + 1, !.net = TRUE,
                                   !.got = TRUE,
                                   !.resumeLive = (outcome = "alive"),
                                   !.inflight = Dec(@, login),
                                   !.using = Inc(@, login)]
                 /\ lstep' = lstep
            ELSE /\ steam_clients' = steam_clients
                 /\ client' = [id |-> 2 * nRecv, origin |-> "login",
                               probe |-> "none"]
                 /\ pc' = "login"
                 /\ lstep' = 1
                 /\ g' = [g EXCEPT !.probes = @ + 1, !.net = TRUE,
                                   !.logins = @ + 1]
    /\ UNCHANGED <<cur, accounts, attempt, response, nRecv, prev,
                   nEdits>>
    /\ Silent
    /\ UNCHANGED <<socketVars, bridgeVars>>

\* (mutant) an eResult that is not in the catalog is let through
send_login_request_lenient(header) ==
    IF header = None
    THEN LoginError("no_x_eresult", 0)
    ELSE IF ~Numeric(header)
    THEN LoginError("ValueError", 0)
    ELSE IF int(header) # 1 /\ int(header) \in errors
    THEN LoginError("eresult", int(header))
    ELSE NoLoginError

\* _send_login_request once the response is there: the exception it raises
\* for the x-eresult header, NoLoginError when it returns the response
send_login_request(header) ==
    IF header = None
    THEN LoginError("no_x_eresult", 0)
    ELSE IF ~Numeric(header)
    THEN LoginError("ValueError", 0)
    ELSE IF int(header) # 1
    THEN IF int(header) \in errors
         THEN LoginError("eresult", int(header))
         ELSE LoginError("unknown_eresult", int(header))
    ELSE NoLoginError

\* (mutant) the guard code update is skipped
NextStep_skip(i) == IF LoginSteps[i] = "submit" THEN i + 2 ELSE i + 1

\* the statement after step i of LoginExecutor.login
NextStep(i) == i + 1

\* (mutant) one repetition less
Repeats_fewer(repetitions) == repetitions < MaxRepetitions - 1

\* `if current_number_of_repetitions < maximal_number_of_repetitions` in
\* the except KeyError branch of _fetch_rsa_params
Repeats(repetitions) == repetitions < MaxRepetitions

\* the values response_json.get("response", {}).get("refresh_token", "")
\* gives: the empty string when the key is missing, else the token
RefreshTokens == {"", "token"}

\* (mutant) the request is sent without a sessionid
finalize_login_unchecked(sessionid) == NoLoginError

\* `if not sessionid: raise` of _finalize_login, before its request
finalize_login(sessionid) ==
    IF sessionid THEN NoLoginError ELSE LoginError("no_sessionid", 0)

\* `if not sessionid: raise` of set_sessionid_cookies, after its GET
set_sessionid_cookies(sessionid) ==
    IF sessionid THEN NoLoginError ELSE LoginError("no_sessionid_at_end", 0)

\* whether the cookie jar had a sessionid cookie, as the counters keep it
Seen(sessionid) == IF sessionid THEN "present" ELSE "absent"

\* one step of client.login; a step that raises ends _get_steam_client
\* with None. ok: the step's requests and the parsing of its response went
\* through; keys: the RSA response has the publickey and timestamp fields;
\* header: the x-eresult header of the submission's response; refresh: the
\* refresh token of the poll response; sessionid: whether the cookie jar
\* has a sessionid cookie when the step reads it
login_step ==
    /\ pc = "login"
    /\ \E ok \in BOOLEAN,
          keys \in IF LoginSteps[lstep] = "rsa" THEN BOOLEAN ELSE {TRUE},
          header \in IF LoginSteps[lstep] = "submit" THEN Headers ELSE {None},
          refresh \in IF LoginSteps[lstep] = "poll" THEN RefreshTokens ELSE {""},
          sessionid \in IF LoginSteps[lstep] \in {"finalize", "sessionid"}
                        THEN BOOLEAN ELSE {TRUE} :
         LET step == LoginSteps[lstep]
             unsent == step = "finalize" /\ finalize_login(sessionid) # NoLoginError
             g1 == [g EXCEPT !.net = TRUE,
                             !.rsa = IF step = "rsa" THEN @ + 1 ELSE @,
                             !.cred = IF step = "submit" THEN @ + 1 ELSE @,
                             !.token = IF step = "poll" /\ ok THEN refresh ELSE @,
                             !.sid = IF step = "finalize" THEN Seen(sessionid) ELSE @,
                             !.fin = IF step = "finalize" /\ ~unsent
                                     THEN @ + 1 ELSE @,
                             !.sidEnd = IF step = "sessionid" /\ ok
                                        THEN Seen(sessionid) ELSE @]
             raised == IF unsent
                       THEN finalize_login(sessionid)
                       ELSE IF ~ok
                       THEN LoginError("exception", 0)
                       ELSE IF step = "rsa" /\ ~keys /\ ~Repeats(g.reps)
                       THEN LoginError("no_rsa_key", 0)
                       ELSE IF step = "submit"
                       THEN send_login_request(header)
                       ELSE IF step = "sessionid"
                       THEN set_sessionid_cookies(sessionid)
                       ELSE NoLoginError
         IN IF raised # NoLoginError
            THEN /\ Failed(NoClientResponse)
                 /\ g' = [Ended(g1) EXCEPT !.inflight = Dec(@, cur.account_login),
                                           !.lerr = raised,
                                           !.fin = g1.fin,
                                           !.sid = g1.sid, !.sidEnd = g1.sidEnd,
                                           !.xer = IF step = "submit" /\ ok
                                                   THEN header ELSE g.xer]
            ELSE IF step = "rsa" /\ ~keys
            THEN /\ lstep' = 1
                 /\ g' = [g1 EXCEPT !.reps = @ + 1]
                 /\ UNCHANGED <<pc, response, client, prev>>
            ELSE /\ g' = [g1 EXCEPT !.xer = IF step = "submit" THEN header ELSE @]
                 /\ IF lstep < Len(LoginSteps)
                    THEN /\ lstep' = NextStep(lstep)
                         /\ UNCHANGED <<pc, response, client, prev>>
                    ELSE /\ lstep' = 0
                         /\ pc' = "probe_login"
                         /\ UNCHANGED <<response, client, prev>>
    /\ UNCHANGED <<cur, steam_clients, accounts, attempt, nRecv, nEdits>>
    /\ Silent
    /\ UNCHANGED <<socketVars, bridgeVars>>

\* (mutant) the cookies written are not those of the new session
set_login_cookies_stale(accts, login, cookies) ==
    IF accts[lower(login)].present
    THEN [accts EXCEPT ![lower(login)].login_cookies = PriorCookies]
    ELSE accts

\* account_manager.set_login_cookies: only an existing entry is rewritten
set_login_cookies(accts, login, cookies) ==
    IF accts[lower(login)].present
    THEN [accts EXCEPT ![lower(login)].login_cookies = cookies]
    ELSE accts

\* the probe after client.login: alive persists the session's cookies
\* (saved = FALSE: reading or writing them raised, which is only logged)
\* and caches the client, dead or raising returns None
probe_login ==
    /\ pc = "probe_login"
    /\ \E outcome \in ProbeOutcomes :
       \E saved \in IF outcome = "alive" THEN BOOLEAN ELSE {FALSE} :
         LET login == cur.account_login
             c == Probed(client, outcome)
         IN /\ g' = [g EXCEPT !.probes = @ + 1, !.net = TRUE,
                              !.got = (outcome = "alive"),
                              !.inflight = Dec(@, login),
                              !.using = IF outcome = "alive"
                                        THEN Inc(@, login) ELSE @]
            /\ IF outcome = "alive"
               THEN /\ accounts' = IF saved
                                   THEN set_login_cookies(accounts, login, <<c.id>>)
                                   ELSE accounts
                    /\ steam_clients' = [steam_clients EXCEPT ![login] = c]
                    /\ client' = c
                    /\ pc' = "route"
                    /\ UNCHANGED <<response, lstep, prev>>
               ELSE /\ Failed(NoClientResponse)
                    /\ UNCHANGED <<accounts, steam_clients>>
    /\ UNCHANGED <<cur, attempt, nRecv, nEdits>>
    /\ Silent
    /\ UNCHANGED <<socketVars, bridgeVars>>

(* ------------------------- routing and handlers ------------------------- *)
\* the argument check a handler makes before its remote call
InvalidArgs(command) == command.cmd \in ValidatedCmds /\ command.args = "invalid"

\* the if/elif chain on cmd_type and the handler's code before its remote call
route ==
    /\ pc = "route"
    /\ prev' = [login |-> cur.account_login, id |-> client.id]
    /\ g' = IF cur.cmd \notin KnownCmds \/ InvalidArgs(cur)
            THEN [Ended(g) EXCEPT !.using = Dec(@, cur.account_login)]
            ELSE Ended(g)
    /\ IF cur.cmd \notin KnownCmds
       THEN /\ Return(Stamp(Result("error", "unknown_cmd", "none"), cur))
            /\ attempt' = attempt
       ELSE IF InvalidArgs(cur)
       THEN /\ Return(Stamp(Result("error", "invalid_args", "none"), cur))
            /\ attempt' = attempt
       ELSE IF cur.cmd \in RetriedCmds
       THEN /\ pc' = "attempt"
            /\ attempt' = 1
            /\ response' = response
       ELSE /\ pc' = "call"
            /\ attempt' = attempt
            /\ response' = response
    /\ UNCHANGED <<cur, client, steam_clients, accounts, lstep, nRecv, nEdits>>
    /\ Silent
    /\ UNCHANGED <<socketVars, bridgeVars>>

\* (mutant) a constant backoff
wait_time_const(n) == 1

\* wait_time = attempt
wait_time(n) == n

\* one iteration of `for attempt in range(1, 6)`: the remote call returns,
\* or raises and the loop sleeps and goes on, or raises on the last attempt
retry_attempt ==
    /\ pc = "attempt"
    /\ \E ok \in BOOLEAN : \E payload \in IF ok THEN Payloads ELSE {"json"} :
         LET g1 == [g EXCEPT !.calls = @ + 1, !.net = TRUE]
             g2 == [g1 EXCEPT !.using = Dec(@, cur.account_login)]
         IN IF ok
            THEN /\ Return(Stamp(Result("success", "none", payload), cur))
                 /\ g' = g2
                 /\ attempt' = 0
            ELSE IF attempt < MaxAttempts
            THEN /\ g' = [g1 EXCEPT !.sleeps = Append(@, wait_time(attempt))]
                 /\ attempt' = attempt + 1
                 /\ UNCHANGED <<pc, response>>
            ELSE /\ Return(ExceptionResponse)
                 /\ g' = g2
                 /\ attempt' = 0
    /\ UNCHANGED <<cur, client, steam_clients, accounts, lstep, nRecv, prev, nEdits>>
    /\ Silent
    /\ UNCHANGED <<socketVars, bridgeVars>>

\* what the GET of /market/priceoverview/ gives: a response with a status
\* code and a body that is JSON or not, or no response (the request raises)
NoHttpResponse == [status_code |-> 0, json |-> FALSE]
PriceResponses ==
    [status_code : {200, 429, 500}, json : BOOLEAN] \cup {NoHttpResponse}

\* (mutant) the status code of the response is not looked at
fetch_price_unchecked(r) ==
    IF r = NoHttpResponse THEN "ConnectionError"
    ELSE IF r.json THEN "none"
    ELSE "JSONDecodeError"

\* SteamMarket.fetch_price: the exception it ends with ("none": it returns
\* response.json())
fetch_price(r) ==
    IF r = NoHttpResponse THEN "ConnectionError"
    ELSE IF r.status_code = 429 THEN "TooManyRequests"
    ELSE IF r.json THEN "none"
    ELSE "JSONDecodeError"

\* str(e) of the exception a handler caught
RateLimitText == "You can fetch maximum 20 prices in 60s period"
str(exc) == IF exc = "TooManyRequests" THEN RateLimitText ELSE "exception"

\* a handler without retry loop: one remote call inside try/except
single_call ==
    /\ pc = "call"
    /\ IF cur.cmd = "market_fetch_price"
       THEN \E r \in PriceResponses :
            \E payload \in IF fetch_price(r) = "none" THEN Payloads ELSE {"json"} :
              LET exc == fetch_price(r)
              IN /\ IF exc = "none"
                    THEN Return(Stamp(Result("success", "none", payload), cur))
                    ELSE Return(Stamp(Result("error", str(exc), "none"), cur))
                 /\ g' = [g EXCEPT !.calls = @ + 1, !.net = TRUE,
                                      !.using = Dec(@, cur.account_login),
                                      !.http = r.status_code, !.exc = exc]
       ELSE \E ok \in BOOLEAN : \E payload \in IF ok THEN Payloads ELSE {"json"} :
              /\ IF ok
                 THEN Return(Stamp(Result("success", "none", payload), cur))
                 ELSE Return(Stamp(Result("error", "exception", "none"), cur))
              /\ g' = [g EXCEPT !.calls = @ + 1, !.net = TRUE,
                                   !.using = Dec(@, cur.account_login)]
    /\ UNCHANGED <<cur, client, steam_clients, accounts, attempt, lstep,
                   nRecv, prev, nEdits>>
    /\ Silent
    /\ UNCHANGED <<socketVars, bridgeVars>>

(* ----------------------- WebSocketClient.connect ------------------------ *)
\* (mutant) the listen loop is entered without the manifest
AfterConnect_skip == "recv"

\* what connect does once websockets.connect has returned: the manifest
AfterConnect == "manifest"

\* connect ends: `finally: self.is_running = False; self.websocket = None`
Returns ==
    /\ pc' = "closed"
    /\ is_running' = FALSE
    /\ websocket' = None

\* (mutant) a connection that is lost is not reported
Lost_silent(st) == st

\* the except branches of connect and `except ConnectionClosed` of
\* _listen_loop: self.on_status_change_callback(False)
Lost(st) == on_status_change_callback(st, FALSE)

\* `self.is_running = True`, then websockets.connect returns the connection
\* (self.websocket = websocket, on_status_change_callback(True)), or raises
\* and connect ends
connect ==
    /\ pc = "connect"
    /\ \E ok \in BOOLEAN :
         IF ok
         THEN /\ pc' = AfterConnect
              /\ is_running' = TRUE
              /\ websocket' = "open"
              /\ status' = on_status_change_callback(status, TRUE)
         ELSE /\ Returns
              /\ status' = Lost(status)
    /\ Silent
    /\ UNCHANGED <<cur, client, steam_clients, accounts, attempt, lstep,
                   response, nRecv, g, prev, nEdits, spc, logged_out>>
    /\ UNCHANGED bridgeVars

\* websocket.send(json.dumps(manifest_msg)), then _listen_loop; a send that
\* raises ends connect. The local `websocket` is the connection whatever
\* self.websocket holds; once close() was called on it the send raises
send_manifest ==
    /\ pc = "manifest"
    /\ \E ok \in IF spc = "idle" THEN BOOLEAN ELSE {FALSE} :
         IF ok
         THEN /\ pc' = "recv" /\ Sends("manifest")
              /\ UNCHANGED <<is_running, websocket, status>>
         ELSE /\ Returns /\ Silent
              /\ status' = Lost(status)
    /\ UNCHANGED <<cur, client, steam_clients, accounts, attempt, lstep,
                   response, nRecv, g, prev, nEdits, spc, logged_out>>
    /\ UNCHANGED bridgeVars

(* --------------------- WebSocketClient._listen_loop --------------------- *)
\* the end of one loop iteration: the locals of the command are dropped
Complete ==
    /\ cur' = NoCmd
    /\ client' = NoClient
    /\ response' = NoResponse
    /\ attempt' = 0
    /\ lstep' = 0
    /\ g' = NoCounters

\* (mutant) every command runs as a task of its own: the loop reads the next
\* frame while earlier commands are still executing
CanReceive_concurrent(position) ==
    position \notin {"connect", "manifest", "closed"}

\* `await self.websocket.recv()` is reached at the top of the loop only,
\* after `await self.on_command_callback(command)` and the send have ended
CanReceive(position) == position = "recv"

\* websocket.recv and json.loads: a frame that does not decode is logged
\* and the loop goes on
recv ==
    /\ CanReceive(pc)
    /\ websocket = "open"
    /\ nRecv < MaxCmds
    /\ \E m \in Messages :
         /\ nRecv' = nRecv + 1
         /\ IF m.decodes
            THEN cur' = m /\ pc' = "execute"
            ELSE cur' = cur /\ pc' = "recv"
    /\ UNCHANGED <<client, steam_clients, accounts, attempt, lstep, response, g, prev, nEdits>>
    /\ Silent
    /\ UNCHANGED <<socketVars, bridgeVars>>

\* `if "request_id" not in response: response["request_id"] = request_id`
Wire(resp, request_id) ==
    IF resp.request_id = "absent"
    THEN [resp EXCEPT !.request_id = request_id]
    ELSE resp

\* json.dumps(response) raises on a result json cannot encode
Serializable(resp) == resp.result # "non_json"

\* the rest of the loop iteration once on_command_callback has returned:
\* json.dumps raises (logged, the loop goes on without a response), or
\* websocket.send sends the frame, or it raises ConnectionClosed and the
\* loop breaks
\* (mutant) the loop ends after a failure that was logged
LoopGoesOn_never == FALSE

\* `while self.is_running and self.websocket`
LoopGoesOn == is_running /\ websocket # None

\* With self.websocket None (disconnect has ended) `self.websocket.send`
\* raises AttributeError, which is logged like the json.dumps failure; on
\* a connection close() was called on, send raises ConnectionClosed. After
\* a logged failure the loop condition decides whether connect returns
listen_reply ==
    /\ pc = "reply"
    /\ IF ~Serializable(Wire(response, cur.request_id)) \/ websocket = None
       THEN /\ Silent
            /\ status' = status
            /\ IF LoopGoesOn
               THEN pc' = "recv" /\ UNCHANGED <<is_running, websocket>>
               ELSE Returns
       ELSE \E closed \in IF websocket = "open" THEN BOOLEAN ELSE {TRUE} :
              IF closed
              THEN /\ Returns /\ Silent
                   /\ status' = Lost(status)
              ELSE /\ pc' = "recv" /\ Sends("response")
                   /\ UNCHANGED <<is_running, websocket, status>>
    /\ Complete
    /\ UNCHANGED <<steam_clients, accounts, nRecv, prev, nEdits, spc, logged_out>>
    /\ UNCHANGED bridgeVars

\* websocket.recv raises ConnectionClosed: on_status_change_callback(False)
\* and the loop breaks. pc = "recv" is the await of recv(): the loop
\* condition is read in the step that ends the iteration before
recv_closed ==
    /\ pc = "recv"
    /\ Returns
    /\ status' = Lost(status)
    /\ UNCHANGED <<cur, client, steam_clients, accounts, attempt, lstep,
                   response, nRecv, g, prev, nEdits, spc, logged_out>>
    /\ Silent
    /\ UNCHANGED bridgeVars

(* ------------------------------ Agent.stop ------------------------------ *)
\* Agent.is_running: _on_connection_status_changed stores the value of
\* every notification in it, and nothing else sets it to True
AgentIsRunning == status.last = "True"

\* CommandExecutor.cleanup: client.logout() on every handle of the
\* dictionary (an exception of logout is swallowed), then
\* self.steam_clients.clear()
cleanup ==
    /\ logged_out' = logged_out \cup
          {steam_clients[l].id : l \in {k \in Spellings : steam_clients[k] # NoClient}}
    /\ steam_clients' = [l \in Spellings |-> NoClient]

\* the rest of Agent.stop once websocket.close() has returned (or without
\* a close): disconnect sets self.websocket = None and notifies False, then
\* cleanup() and `self.is_running = False`
Stopped ==
    /\ websocket' = None
    /\ status' = on_status_change_callback(status, FALSE)
    /\ cleanup
    /\ spc' = "done"

\* Agent.stop, run on the agent's event loop from the GUI's stop button:
\* `if not self.is_running: return`, then WebSocketClient.disconnect up to
\* `await self.websocket.close()`
stop ==
    /\ spc = "idle"
    /\ AgentIsRunning
    /\ is_running' = FALSE
    /\ IF websocket # None
       THEN /\ websocket' = "closing"
            /\ spc' = "closing"
            /\ UNCHANGED <<status, steam_clients, logged_out>>
       ELSE Stopped
    /\ UNCHANGED <<pc, cur, client, accounts, attempt, lstep, response,
                   nRecv, g, prev, nEdits, sent>>
    /\ UNCHANGED bridgeVars

\* websocket.close() returns and Agent.stop runs to its end
stop_end ==
    /\ spc = "closing"
    /\ Stopped
    /\ UNCHANGED <<pc, cur, client, accounts, attempt, lstep, response,
                   nRecv, g, prev, nEdits, sent, is_running>>
    /\ UNCHANGED bridgeVars

(* ------------------ accounts.json edits from the GUI -------------------- *)
\* Agent.save_account_credentials -> AccountManager.set_account: the entry
\* is replaced by one without login_cookies
save_account_credentials(login) ==
    /\ nEdits < MaxEdits
    /\ nEdits' = nEdits + 1
    /\ accounts' = [accounts EXCEPT ![login] = Account(NoCookies)]
    /\ UNCHANGED <<pc, cur, client, steam_clients, attempt, lstep, response,
                   nRecv, g, prev>>
    /\ Silent
    /\ UNCHANGED <<socketVars, bridgeVars>>

\* Agent.delete_account -> AccountManager.remove_account
delete_account(login) ==
    /\ nEdits < MaxEdits
    /\ nEdits' = nEdits + 1
    /\ accounts' = [accounts EXCEPT ![login] = NoAccount]
    /\ UNCHANGED <<pc, cur, client, steam_clients, attempt, lstep, response,
                   nRecv, g, prev>>
    /\ Silent
    /\ UNCHANGED <<socketVars, bridgeVars>>

(* ----------------- caller side: RemoteSteamClient ------------------------ *)
\* the processes that each own one RemoteSteamClient, and its login
Callers == {"bot1", "bot2"}
CallerLogin(c) == IF c = "bot1" THEN "vasya" ELSE "petya"

\* the pool's socket_timeout, in seconds: redis-py applies it to every read
\* of a reply, the reply of a blocking BLPOP included
SocketTimeout == 5

\* the command_timeout values a caller can construct its client with
Timeouts == 0 .. MaxTimeout

\* the action of every RemoteSteamClient method that calls
\* _send_command_and_wait
PublishedCmds ==
    {"is_session_alive", "get_trade_offers", "get_trade_offer",
     "accept_trade_offer", "decline_trade_offer", "cancel_trade_offer",
     "make_offer", "get_my_inventory", "get_partner_inventory",
     "get_wallet_balance", "market_create_buy_order",
     "market_cancel_buy_order", "market_create_sell_order",
     "market_cancel_sell_order", "market_get_my_buy_orders",
     "market_get_my_sell_listings", "market_get_my_market_listings",
     "market_fetch_price", "market_fetch_price_history"}

\* the actions published by the callers
BridgeCmds == {"get_wallet_balance", "get_trade_offers"}

\* uuid4(): a value no earlier call returned
uuid4(drawn) == drawn + 1

\* (mutant) one list for every request
ResponseKey_shared(request_id) == <<"response", 1>>

\* f"response:{request_id}", the list the caller blocks on
ResponseKey(request_id) == <<"response", request_id>>
Keys == {ResponseKey(u) : u \in 1 .. MaxRequests}

\* a text, as the sequence of its parts; Contains is Python's `phrase in text`
Contains(text, phrase) == \E i \in 1 .. Len(text) : text[i] = phrase

\* the message of an error response built by the agent's dispatcher
AgentMessage == <<"str(e)">>

\* the JSON pushed on a response list. Responses built by the agent carry
\* message and no error key; the gateway's own errors carry error and no
\* message key ("absent": the key is missing)
NoBridgeResponse ==
    [request_id |-> 0, status |-> "none", error |-> "absent",
     message |-> "absent", origin |-> "none"]
ResponsesTo(request_id) ==
    {[request_id |-> request_id, status |-> "success", error |-> "absent",
      message |-> "absent", origin |-> "agent"],
     [request_id |-> request_id, status |-> "error", error |-> "absent",
      message |-> AgentMessage, origin |-> "agent"],
     [request_id |-> request_id, status |-> "error",
      error |-> <<"Agent is offline">>,
      message |-> "absent", origin |-> "gateway"],
     [request_id |-> request_id, status |-> "error",
      error |-> <<"Failed to send command", ": connection lost">>,
      message |-> "absent", origin |-> "gateway"],
     [request_id |-> request_id, status |-> "error",
      error |-> <<"Unknown agent token">>,
      message |-> "absent", origin |-> "gateway"]}

BridgeInit ==
    /\ bpc = [c \in Callers |-> "idle"]
    /\ brid = [c \in Callers |-> 0]
    /\ btimeout \in [Callers -> Timeouts]
    /\ bwaited = [c \in Callers |-> 0]
    /\ bgot = [c \in Callers |-> NoBridgeResponse]
    /\ slots = [k \in Keys |-> << >>]
    /\ channel = {}
    /\ nextUuid = 0

\* the caller side at rest, for the specifications of the agent
BridgeIdle ==
    /\ bpc = [c \in Callers |-> "idle"]
    /\ brid = [c \in Callers |-> 0]
    /\ btimeout = [c \in Callers |-> 0]
    /\ bwaited = [c \in Callers |-> 0]
    /\ bgot = [c \in Callers |-> NoBridgeResponse]
    /\ slots = [k \in Keys |-> << >>]
    /\ channel = {}
    /\ nextUuid = 0

\* _send_command_and_wait up to the blpop call: a fresh request_id, the
\* payload published on to_agent_gateway, the wait on response:{request_id}
send_command(c, action) ==
    /\ bpc[c] \in {"idle", "returned", "raised"}
    /\ nextUuid < MaxRequests
    /\ LET request_id == uuid4(nextUuid)
           payload == [target_token |-> "token", request_id |-> request_id,
                       cmd |-> action, account_login |-> CallerLogin(c)]
       IN /\ nextUuid' = request_id
          /\ brid' = [brid EXCEPT ![c] = request_id]
          /\ channel' = channel \cup {payload}
    /\ bpc' = [bpc EXCEPT ![c] = "waiting"]
    /\ bwaited' = [bwaited EXCEPT ![c] = 0]
    /\ bgot' = [bgot EXCEPT ![c] = NoBridgeResponse]
    /\ UNCHANGED <<btimeout, slots>>
    /\ UNCHANGED <<agentVars, poolVars, marketVars, orderVars>>

\* the gateway and the agent: a published payload is answered by a response
\* carrying its request_id, pushed on that request's response list
gateway_respond(payload) ==
    /\ payload \in channel
    /\ \E r \in ResponsesTo(payload.request_id) :
         slots' = [slots EXCEPT ![ResponseKey(r.request_id)] = Append(@, r)]
    /\ channel' = channel \ {payload}
    /\ UNCHANGED <<bpc, brid, btimeout, bwaited, bgot, nextUuid>>
    /\ UNCHANGED <<agentVars, poolVars, marketVars, orderVars>>

\* result.get("error", "Unknown error")
error_message(result) ==
    IF result.error = "absent" THEN <<"Unknown error">> ELSE result.error

\* (mutant) every error response raises to the caller
Outcome_always_raises(result) ==
    IF result.status = "error" THEN "raised" ELSE "returned"

\* what _send_command_and_wait does with a decoded response
Outcome(result) ==
    IF result.status = "error"
    THEN IF \/ Contains(error_message(result), "Agent is offline")
            \/ Contains(error_message(result), "Failed to send command")
         THEN "exited"
         ELSE "raised"
    ELSE "returned"

\* blpop returns the head of the caller's response list
blpop_data(c) ==
    /\ bpc[c] = "waiting"
    /\ slots[ResponseKey(brid[c])] # << >>
    /\ LET result == Head(slots[ResponseKey(brid[c])])
       IN /\ bgot' = [bgot EXCEPT ![c] = result]
          /\ bpc' = [bpc EXCEPT ![c] = Outcome(result)]
    /\ slots' = [slots EXCEPT ![ResponseKey(brid[c])] = Tail(@)]
    /\ UNCHANGED <<brid, btimeout, bwaited, channel, nextUuid>>
    /\ UNCHANGED <<agentVars, poolVars, marketVars, orderVars>>

\* BLPOP's timeout: 0 blocks without deadline, a positive value makes the
\* server reply nil that many seconds after the call
HasDeadline(timeout) == timeout > 0

\* blpop returns None at the deadline: os._exit(1)
blpop_nil(c) ==
    /\ bpc[c] = "waiting"
    /\ slots[ResponseKey(brid[c])] = << >>
    /\ HasDeadline(btimeout[c])
    /\ bwaited[c] = btimeout[c]
    /\ bpc' = [bpc EXCEPT ![c] = "exited"]
    /\ UNCHANGED <<brid, btimeout, bwaited, bgot, slots, channel, nextUuid>>
    /\ UNCHANGED <<agentVars, poolVars, marketVars, orderVars>>

\* no reply was read for socket_timeout seconds: the read raises
\* redis.exceptions.TimeoutError, which _send_command_and_wait lets through
blpop_socket_timeout(c) ==
    /\ bpc[c] = "waiting"
    /\ slots[ResponseKey(brid[c])] = << >>
    /\ bwaited[c] = SocketTimeout
    /\ bpc' = [bpc EXCEPT ![c] = "raised"]
    /\ UNCHANGED <<brid, btimeout, bwaited, bgot, slots, channel, nextUuid>>
    /\ UNCHANGED <<agentVars, poolVars, marketVars, orderVars>>

\* the second at which a blocked blpop call ends without data
Due(c) ==
    \/ bwaited[c] = SocketTimeout
    \/ HasDeadline(btimeout[c]) /\ bwaited[c] = btimeout[c]

\* one second passes for every caller blocked on an empty list
tick ==
    /\ \E c \in Callers : bpc[c] = "waiting" /\ slots[ResponseKey(brid[c])] = << >>
    /\ \A c \in Callers :
         bpc[c] = "waiting" /\ slots[ResponseKey(brid[c])] = << >> => ~Due(c)
    /\ bwaited' = [c \in Callers |->
                     IF bpc[c] = "waiting" /\ slots[ResponseKey(brid[c])] = << >>
                     THEN bwaited[c] + 1 ELSE bwaited[c]]
    /\ UNCHANGED <<bpc, brid, btimeout, bgot, slots, channel, nextUuid>>
    /\ UNCHANGED <<agentVars, poolVars, marketVars, orderVars>>

(* ------------------- RedisManager.get_pool, by threads ------------------ *)
NumThreads == 2
MaxCalls == 2
Threads == 1 .. NumThreads

\* process ids: the first process, and one more for every fork followed
MaxForks == 1
Pids == 0 .. MaxForks

\* the (host, port, db) values RemoteSteamClient objects are constructed
\* with: two databases of one server
NoParams == [host |-> None, port |-> 0, db |-> 0]
Params == [host : {"redis"}, port : {6379}, db : {0, 1}]

NoPool == [pid |-> None, n |-> 0, to |-> NoParams]
\* redis.ConnectionPool(host=host, port=port, db=db, ...): the n-th pool
\* object constructed by process pid, and what it connects to
ConnectionPool(pid, n, to) == [pid |-> pid, n |-> n, to |-> to]

NoInstances == [p \in Pids |-> NoPool]
PoolIdle ==
    /\ instances = NoInstances
    /\ lock = 0
    /\ tpc = [t \in Threads |-> "idle"]
    /\ returned = [t \in Threads |-> NoPool]
    /\ path = [t \in Threads |-> "none"]
    /\ ncalls = [t \in Threads |-> 0]
    /\ created = 0
    /\ current_pid = 0
    /\ inherited = NoInstances
    /\ asked = [t \in Threads |-> NoParams]

PoolInit ==
    /\ instances = NoInstances
    /\ lock = 0
    /\ tpc = [t \in Threads |-> "idle"]
    /\ returned = [t \in Threads |-> NoPool]
    /\ path = [t \in Threads |-> "none"]
    /\ ncalls = [t \in Threads |-> 0]
    /\ created = 0
    /\ current_pid = 0
    /\ inherited = NoInstances
    /\ asked = [t \in Threads |-> NoParams]

\* `current_pid in cls._instances`
HasPool(inst, pid) == inst[pid] # NoPool

\* (mutant) no second check once the lock is held
NeedsPool_unchecked(inst, pid) == TRUE

\* the check inside the lock: `current_pid not in cls._instances`
NeedsPool(inst, pid) == ~HasPool(inst, pid)

\* a thread calls get_pool(host, port, db): current_pid = os.getpid()
get_pool(t) ==
    /\ tpc[t] = "idle"
    /\ ncalls[t] < MaxCalls
    /\ \E to \in Params : asked' = [asked EXCEPT ![t] = to]
    /\ ncalls' = [ncalls EXCEPT ![t] = @ + 1]
    /\ tpc' = [tpc EXCEPT ![t] = "check"]
    /\ returned' = [returned EXCEPT ![t] = NoPool]
    /\ path' = [path EXCEPT ![t] = "none"]
    /\ UNCHANGED <<instances, lock, created>>
    /\ UNCHANGED <<current_pid, inherited>>
    /\ UNCHANGED <<agentVars, callerVars, marketVars, orderVars>>

\* the check made without the lock
fast_check(t) ==
    /\ tpc[t] = "check"
    /\ IF HasPool(instances, current_pid)
       THEN /\ tpc' = [tpc EXCEPT ![t] = "fast_return"]
            /\ path' = [path EXCEPT ![t] = "fast"]
       ELSE /\ tpc' = [tpc EXCEPT ![t] = "acquire"]
            /\ path' = [path EXCEPT ![t] = "slow"]
    /\ UNCHANGED <<instances, lock, returned, ncalls, created>>
    /\ UNCHANGED <<current_pid, inherited, asked>>
    /\ UNCHANGED <<agentVars, callerVars, marketVars, orderVars>>

\* return cls._instances[current_pid], without the lock
fast_return(t) ==
    /\ tpc[t] = "fast_return"
    /\ returned' = [returned EXCEPT ![t] = instances[current_pid]]
    /\ tpc' = [tpc EXCEPT ![t] = "idle"]
    /\ UNCHANGED <<instances, lock, path, ncalls, created>>
    /\ UNCHANGED <<current_pid, inherited, asked>>
    /\ UNCHANGED <<agentVars, callerVars, marketVars, orderVars>>

\* with cls._lock: blocks while another thread holds the lock
acquire(t) ==
    /\ tpc[t] = "acquire"
    /\ lock = 0
    /\ lock' = t
    /\ tpc' = [tpc EXCEPT ![t] = "locked_check"]
    /\ UNCHANGED <<instances, returned, path, ncalls, created>>
    /\ UNCHANGED <<current_pid, inherited, asked>>
    /\ UNCHANGED <<agentVars, callerVars, marketVars, orderVars>>

\* the second check, made holding the lock
locked_check(t) ==
    /\ tpc[t] = "locked_check"
    /\ tpc' = [tpc EXCEPT ![t] =
                 IF NeedsPool(instances, current_pid) THEN "create"
                 ELSE "locked_return"]
    /\ UNCHANGED <<instances, lock, returned, path, ncalls, created>>
    /\ UNCHANGED <<current_pid, inherited, asked>>
    /\ UNCHANGED <<agentVars, callerVars, marketVars, orderVars>>

\* (mutant) the entries of other processes stay in the dictionary
Cleared_kept(inst) == inst

\* cls._instances.clear(), run when the dictionary has entries
Cleared(inst) == NoInstances

\* the entries of other processes are cleared, a pool is constructed and
\* stored under the current pid
create_pool(t) ==
    /\ tpc[t] = "create"
    /\ created' = created + 1
    /\ instances' = [Cleared(instances) EXCEPT
                       ![current_pid] = ConnectionPool(current_pid, created',
                                                       asked[t])]
    /\ tpc' = [tpc EXCEPT ![t] = "locked_return"]
    /\ UNCHANGED <<lock, returned, path, ncalls>>
    /\ UNCHANGED <<current_pid, inherited, asked>>
    /\ UNCHANGED <<agentVars, callerVars, marketVars, orderVars>>

\* return cls._instances[current_pid] inside the with block: the lock is
\* released on the way out
locked_return(t) ==
    /\ tpc[t] = "locked_return"
    /\ returned' = [returned EXCEPT ![t] = instances[current_pid]]
    /\ lock' = 0
    /\ tpc' = [tpc EXCEPT ![t] = "idle"]
    /\ UNCHANGED <<instances, path, ncalls, created>>
    /\ UNCHANGED <<current_pid, inherited, asked>>
    /\ UNCHANGED <<agentVars, callerVars, marketVars, orderVars>>

\* a thread outside get_pool forks and the child is followed from here on:
\* the child has a new pid, a copy of the dictionary and of the lock as they
\* were in the parent, and the forking thread only; the threads it starts
\* later have made no call yet
fork(t) ==
    /\ tpc[t] = "idle"
    /\ current_pid < MaxForks
    /\ current_pid' = current_pid + 1
    /\ inherited' = instances
    /\ tpc' = [u \in Threads |-> "idle"]
    /\ returned' = [u \in Threads |-> NoPool]
    /\ path' = [u \in Threads |-> "none"]
    /\ asked' = [u \in Threads |-> NoParams]
    /\ created' = 0
    /\ UNCHANGED <<instances, lock, ncalls>>
    /\ UNCHANGED <<agentVars, callerVars, marketVars, orderVars>>

(* ------------------ SteamMarket.get_my_sell_listings -------------------- *)
max_retries == 5
\* the bound of `n_showing < n_total < 1000`, the count of a page request
BulkLimit == 1000
PageSize == 100

\* Steam's side: the account has listings 1 .. total, numbered in the order
\* in which Steam lists them, and the /market page shows the first `shown`
Markets ==
    {[total |-> 0, shown |-> 0], [total |-> 30, shown |-> 30],
     [total |-> 120, shown |-> 30], [total |-> 250, shown |-> 30],
     [total |-> 1200, shown |-> 30]}

\* the listing ids in the answer to a request for count listings after the
\* first start ones (count = -1: all of them)
Window(m, start, count) ==
    {k \in 1 .. m.total : k > start /\ (count = -1 \/ k <= start + count)}

\* sell_listings = None, and a dict of listings by the ids that are its keys
NoListings == [none |-> TRUE, ids |-> {}]
Dict(ids) == [none |-> FALSE, ids |-> ids]

\* the requests of the call by endpoint; those of the current pass;
\* whether the /market page of the current pass had the two counters; and
\* whether a pass whose page requests were all answered was followed by
\* another attempt
NoRequests == [market |-> 0, render |-> 0, page |-> 0,
               pass_render |-> 0, pass_page |-> 0, counters |-> FALSE,
               again |-> FALSE]

MarketIdle ==
    /\ mpc = "idle"
    /\ mattempt = 0
    /\ market = [total |-> 0, shown |-> 0]
    /\ n_showing = 0
    /\ n_total = 0
    /\ page_i = 0
    /\ listings = {}
    /\ sell_listings = NoListings
    /\ reqs = NoRequests

\* the call is entered: sell_listings = None, the first attempt
MarketInit ==
    /\ mpc = "get_market"
    /\ mattempt = 0
    /\ market \in Markets
    /\ n_showing = 0
    /\ n_total = 0
    /\ page_i = 0
    /\ listings = {}
    /\ sell_listings = NoListings
    /\ reqs = NoRequests

\* `continue` of the attempt loop, and the loop running out: the function
\* falls through to `return sell_listings`
NextAttempt ==
    IF mattempt + 1 < max_retries
    THEN /\ mattempt' = mattempt + 1
         /\ mpc' = "get_market"
    ELSE /\ mattempt' = mattempt
         /\ mpc' = "returned"

\* a request that was not answered 200, or that raised: before the last
\* attempt the function sleeps and goes to the next attempt, on the last
\* attempt it raises ApiException
RequestFailed ==
    IF mattempt < max_retries - 1
    THEN /\ mattempt' = mattempt + 1
         /\ mpc' = "get_market"
    ELSE /\ mattempt' = mattempt
         /\ mpc' = "raised"

\* GET /market: the listings the page shows, and its end and total counters
\* (counters = FALSE: the page has no such spans)
get_market ==
    /\ mpc = "get_market"
    /\ \E ok \in BOOLEAN : \E counters \in IF ok THEN BOOLEAN ELSE {FALSE} :
         /\ reqs' = [reqs EXCEPT !.market = @ + 1, !.pass_render = 0,
                                 !.pass_page = 0, !.counters = counters]
         /\ IF ok
            THEN /\ listings' = Window(market, 0, market.shown)
                 /\ IF counters
                    THEN /\ n_showing' = market.shown
                         /\ n_total' = market.total
                         /\ mpc' = "branch"
                    ELSE /\ UNCHANGED <<n_showing, n_total>>
                         /\ mpc' = "finish"
                 /\ UNCHANGED <<mattempt, page_i, sell_listings>>
            ELSE /\ RequestFailed
                 /\ UNCHANGED <<listings, n_showing, n_total, page_i, sell_listings>>
    /\ UNCHANGED market
    /\ UNCHANGED <<agentVars, callerVars, poolVars, orderVars>>

\* (mutant) the rest is always fetched page by page
Bulk_never(showing, total) == FALSE

\* `if n_showing < n_total < 1000`
Bulk(showing, total) == showing < total /\ total < BulkLimit

\* the if/else on the counters; range(0, n_total, 100) is empty for n_total
\* = 0, and then the else of the for loop continues the attempt loop
branch ==
    /\ mpc = "branch"
    /\ IF Bulk(n_showing, n_total)
       THEN /\ mpc' = "get_render"
            /\ UNCHANGED <<mattempt, page_i>>
       ELSE IF n_total > 0
       THEN /\ mpc' = "get_page"
            /\ page_i' = 0
            /\ UNCHANGED mattempt
       ELSE /\ NextAttempt
            /\ UNCHANGED page_i
    /\ UNCHANGED <<market, n_showing, n_total, listings, sell_listings, reqs>>
    /\ UNCHANGED <<agentVars, callerVars, poolVars, orderVars>>

\* GET /market/mylistings/render/?start=n_showing&count=-1, merged into
\* listings["sell_listings"] by listing id
get_render ==
    /\ mpc = "get_render"
    /\ reqs' = [reqs EXCEPT !.render = @ + 1, !.pass_render = @ + 1]
    /\ \E ok \in BOOLEAN :
         IF ok
         THEN /\ listings' = listings \cup Window(market, n_showing, -1)
              /\ mpc' = "finish"
              /\ UNCHANGED mattempt
         ELSE /\ RequestFailed
              /\ UNCHANGED listings
    /\ UNCHANGED <<market, n_showing, n_total, page_i, sell_listings>>
    /\ UNCHANGED <<agentVars, callerVars, poolVars, orderVars>>

\* one iteration of the page loop: GET /market/mylistings/?start=
\* n_showing + i&count=100, merged by listing id; after the last iteration
\* the else of the for loop continues the attempt loop
get_page ==
    /\ mpc = "get_page"
    /\ \E ok \in BOOLEAN :
         LET r == [reqs EXCEPT !.page = @ + 1, !.pass_page = @ + 1]
         IN IF ok
            THEN /\ listings' = listings \cup Window(market, n_showing + page_i, PageSize)
                 /\ IF page_i + PageSize < n_total
                    THEN /\ page_i' = page_i + PageSize
                         /\ reqs' = r
                         /\ UNCHANGED <<mpc, mattempt>>
                    ELSE /\ NextAttempt
                         /\ reqs' = [r EXCEPT !.again = (mpc' = "get_market")]
                         /\ UNCHANGED page_i
            ELSE /\ RequestFailed
                 /\ reqs' = r
                 /\ UNCHANGED <<listings, page_i>>
    /\ UNCHANGED <<market, n_showing, n_total, sell_listings>>
    /\ UNCHANGED <<agentVars, callerVars, poolVars, orderVars>>

\* time.sleep(5.4); sell_listings = listings.get('sell_listings'); break;
\* return sell_listings
finish ==
    /\ mpc = "finish"
    /\ sell_listings' = Dict(listings)
    /\ mpc' = "returned"
    /\ UNCHANGED <<mattempt, market, n_showing, n_total, page_i, listings, reqs>>
    /\ UNCHANGED <<agentVars, callerVars, poolVars, orderVars>>

(* -------------------- SteamMarket.create_buy_order ---------------------- *)
\* the JSON of a createbuyorder response, by the keys the function reads:
\* success (0: the key is missing), need_confirmation, and
\* confirmation.confirmation_id (0: the key is missing)
NoOrderResponse == [success |-> 0, need_confirmation |-> FALSE, confirmation_id |-> 0]
OrderResponses ==
    [success : {0, 1, 16}, need_confirmation : BOOLEAN, confirmation_id : {0, 7, 8}]

OrderIdle ==
    /\ opc = "idle"
    /\ steam_guard = FALSE
    /\ first = NoOrderResponse
    /\ oresponse = NoOrderResponse
    /\ confirmation = 0
    /\ confirmed = "none"
    /\ posts = 0

\* the call is entered: data["confirmation"] = 0
OrderInit ==
    /\ opc = "post"
    /\ steam_guard \in BOOLEAN
    /\ first = NoOrderResponse
    /\ oresponse = NoOrderResponse
    /\ confirmation = 0
    /\ confirmed = "none"
    /\ posts = 0

\* the first request and what follows from its response; the request or
\* .json() raising ends the call with that exception
post_order ==
    /\ opc = "post"
    /\ posts' = posts + 1
    /\ \E ok \in BOOLEAN : \E r \in IF ok THEN OrderResponses ELSE {NoOrderResponse} :
         /\ first' = r
         /\ oresponse' = r
         /\ opc' = IF ~ok THEN "raised"
                   ELSE IF r.success = 1 THEN "returned"
                   ELSE IF r.need_confirmation
                   THEN IF steam_guard /\ r.confirmation_id # 0
                        THEN "confirm" ELSE "raised"
                   ELSE "raised"
    /\ UNCHANGED <<steam_guard, confirmation, confirmed>>
    /\ UNCHANGED <<agentVars, callerVars, poolVars, marketVars>>

\* (mutant) the result of confirm_by_id is not looked at
Confirmed_ignored(outcome) == outcome # "raise"

\* `if not success: raise ApiException("Mobile confirmation failed")`
Confirmed(outcome) == outcome = "confirmed"

\* confirmation_executor.confirm_by_id(confirmation_id) returns True or
\* False, or raises
confirm ==
    /\ opc = "confirm"
    /\ \E outcome \in {"confirmed", "refused", "raise"} :
         /\ confirmed' = outcome
         /\ IF Confirmed(outcome)
            THEN /\ confirmation' = first.confirmation_id
                 /\ opc' = "repost"
            ELSE /\ confirmation' = confirmation
                 /\ opc' = "raised"
    /\ UNCHANGED <<steam_guard, first, oresponse, posts>>
    /\ UNCHANGED <<agentVars, callerVars, poolVars, marketVars>>

\* the second request, with data["confirmation"] = confirmation_id
repost_order ==
    /\ opc = "repost"
    /\ posts' = posts + 1
    /\ \E ok \in BOOLEAN : \E r \in IF ok THEN OrderResponses ELSE {NoOrderResponse} :
         /\ oresponse' = r
         /\ opc' = IF ok /\ r.success = 1 THEN "returned" ELSE "raised"
    /\ UNCHANGED <<steam_guard, first, confirmation, confirmed>>
    /\ UNCHANGED <<agentVars, callerVars, poolVars, marketVars>>

\* the agent side at rest, for the specification of the caller side
AgentIdle ==
    /\ pc = "closed"
    /\ cur = NoCmd
    /\ client = NoClient
    /\ steam_clients = [l \in Spellings |-> NoClient]
    /\ accounts = [l \in Logins |-> Account(NoCookies)]
    /\ attempt = 0
    /\ lstep = 0
    /\ response = NoResponse
    /\ nRecv = 0
    /\ g = NoCounters
    /\ prev = NoPrev
    /\ nEdits = 0
    /\ sent = NoneSent
    /\ SocketInit

(* --------------------------- specification ------------------------------ *)
Init == AgentInit /\ BridgeIdle /\ PoolIdle /\ MarketIdle /\ OrderIdle

\* the steps of the connection's coroutine: connect, the listen loop and
\* the command it executes
ConnectionNext ==
    \/ connect
    \/ send_manifest
    \/ recv
    \/ recv_closed
    \/ execute_command
    \/ probe_cached
    \/ read_creds
    \/ probe_cookies
    \/ login_step
    \/ probe_login
    \/ route
    \/ retry_attempt
    \/ single_call
    \/ listen_reply

Next ==
    \/ ConnectionNext
    \/ \E l \in Logins : save_account_credentials(l)
    \/ \E l \in Logins : delete_account(l)

Spec == Init /\ [][Next]_vars

\* the agent with its stop button: Agent.stop may run at any await of the
\* connection's coroutine; accounts.json is not edited meanwhile
StopNext ==
    \/ ConnectionNext
    \/ stop
    \/ stop_end

SpecStop == Init /\ [][StopNext]_vars

BridgeNext ==
    \/ \E c \in Callers, action \in BridgeCmds : send_command(c, action)
    \/ \E payload \in channel : gateway_respond(payload)
    \/ \E c \in Callers : blpop_data(c)
    \/ \E c \in Callers : blpop_nil(c)
    \/ \E c \in Callers : blpop_socket_timeout(c)
    \/ tick

\* the caller side on its own: no agent is connected
InitBridge == BridgeInit /\ AgentIdle /\ PoolIdle /\ MarketIdle /\ OrderIdle

SpecBridge == InitBridge /\ [][BridgeNext]_vars

PoolNext ==
    \/ \E t \in Threads : get_pool(t)
    \/ \E t \in Threads : fast_check(t)
    \/ \E t \in Threads : fast_return(t)
    \/ \E t \in Threads : acquire(t)
    \/ \E t \in Threads : locked_check(t)
    \/ \E t \in Threads : create_pool(t)
    \/ \E t \in Threads : locked_return(t)
    \/ \E t \in Threads : fork(t)

\* the threads of one process calling get_pool; nothing else runs
InitPool == PoolInit /\ AgentIdle /\ BridgeIdle /\ MarketIdle /\ OrderIdle

SpecPool == InitPool /\ [][PoolNext]_vars

MarketNext ==
    \/ get_market
    \/ branch
    \/ get_render
    \/ get_page
    \/ finish

\* one get_my_sell_listings call; nothing else runs
InitMarket == MarketInit /\ OrderIdle /\ AgentIdle /\ BridgeIdle /\ PoolIdle

SpecMarket == InitMarket /\ [][MarketNext]_vars

OrderNext ==
    \/ post_order
    \/ confirm
    \/ repost_order

\* one create_buy_order call; nothing else runs
InitOrder == OrderInit /\ MarketIdle /\ AgentIdle /\ BridgeIdle /\ PoolIdle

SpecOrder == InitOrder /\ [][OrderNext]_vars

(* ------------------------------ properties ------------------------------ *)
\* the login of the command being executed
Login == cur.account_login

\* the frame _listen_loop is about to serialize and send
Frame == Wire(response, cur.request_id)

\* C1: the response the command channel is about to send for a command
\* carries the request_id of that command, whatever the command's cmd value,
\* login, arguments, and whether the session creation or the handler failed.
C1_RequestIdEchoed ==
    pc = "reply" => Frame.request_id = cur.request_id

\* C1 witness: a successful handler's response is about to be sent for a
\* command that carries request_id "A"
C1_Witness ==
    /\ pc = "reply"
    /\ cur.request_id = "A"
    /\ response.status = "success"
    /\ Frame.request_id = "A"

\* C2 (as claimed): every frame received is answered by exactly one
\* response before the next frame is received: a received frame is handed to
\* the dispatcher, and the loop goes back to receiving from a finished
\* command only by sending that command's response.
C2_OneResponsePerCommand ==
    [][/\ nRecv' # nRecv => pc' = "execute"
       /\ (pc = "reply" /\ pc' = "recv") => Serializable(Frame)]_vars

\* C3 (as claimed): a wait of _send_command_and_wait that got no response
\* never ends by returning or raising to the caller, for every
\* command_timeout: it ends with the exit of the process.
C3_NoResponseExits ==
    \A c \in Callers :
        bpc[c] \in {"returned", "raised"} => bgot[c] # NoBridgeResponse

\* C4: the request ids of two callers are different, and the response a
\* caller's wait ended with carries that caller's own request_id.
C4_OwnResponseOnly ==
    /\ \A c1, c2 \in Callers :
         (c1 # c2 /\ brid[c1] # 0) => brid[c1] # brid[c2]
    /\ \A c \in Callers :
         bgot[c] # NoBridgeResponse => bgot[c].request_id = brid[c]

\* C4 witness: bot2 published first and is still waiting, bot1 published
\* second and its wait has returned with the response to its own request
C4_Witness ==
    /\ brid["bot2"] = 1
    /\ bpc["bot2"] = "waiting"
    /\ brid["bot1"] = 2
    /\ bpc["bot1"] = "returned"
    /\ bgot["bot1"].request_id = 2

\* C5 (as claimed): when the probe of the handle built from the persisted
\* cookies was dead or raised, the command gets an error response.
C5_ResumptionFailureIsError ==
    (pc = "reply" /\ g.resumes = 1 /\ ~g.resumeLive) => response.status = "error"

\* C5 (amended): every cached handle's last probe returned alive; while the
\* cookie resumption or the full login of a login is in progress no handle
\* of that login is cached; and when _get_steam_client ends without a client
\* (a login step raised, the post-login probe was dead or raised) the
\* command's response is an error and no handle is cached for the login.
C5_CachedOnlyAfterLiveProbe ==
    /\ \A l \in Spellings :
         steam_clients[l] # NoClient => steam_clients[l].probe = "alive"
    /\ pc \in {"probe_cookies", "login", "probe_login"} =>
         steam_clients[Login] = NoClient
    /\ (pc = "reply" /\ g.called /\ ~g.got) =>
         /\ response.status = "error"
         /\ steam_clients[Login] = NoClient

\* C5 witness: a full login was started, it did not produce a client, and
\* the error response is about to be sent
C5_Witness ==
    /\ pc = "reply"
    /\ g.called /\ ~g.got
    /\ g.logins = 1
    /\ g.net
    /\ response = NoClientResponse
    /\ steam_clients[Login] = NoClient

\* C6: when the probe of the handle built from the persisted cookies
\* returned alive, _get_steam_client returned that handle, cached, with no
\* RSA key fetch, no credential submission and no full login; and a full
\* login is in progress only if the login had no persisted cookies or the
\* probe of the handle built from them did not return alive.
C6_ResumptionSkipsLogin ==
    /\ g.resumeLive =>
         /\ g.got
         /\ g.rsa = 0 /\ g.cred = 0 /\ g.logins = 0
         /\ pc = "route" => /\ client.origin = "cookies"
                            /\ steam_clients[Login] = client
    /\ pc = "login" =>
         /\ g.logins = 1
         /\ g.resumes = 0 => accounts[lower(Login)].login_cookies = NoCookies
         /\ g.resumes = 1 => ~g.resumeLive

\* C6 witness: _get_steam_client has just returned the handle built from the
\* persisted cookies
C6_Witness ==
    /\ pc = "route"
    /\ g.resumeLive
    /\ g.resumes = 1
    /\ client.origin = "cookies"
    /\ client.probe = "alive"
    /\ steam_clients[Login] = client

Backoff(n) == [k \in 1 .. n |-> k]

C9_ValidationBeforeNetwork ==
    (pc = "reply" /\ response.message = "invalid_args") =>
        /\ ~g.net
        /\ g.resumes = 0 /\ g.logins = 0
        /\ g.calls = 0 /\ g.sleeps = << >>

\* C10 (as claimed): a _get_steam_client call for a login that has no
\* accounts.json entry (none when the call was entered, none now) makes no
\* network call and returns no client, and the command's response is an
\* error with no handle cached for the login.
C10_MissingCredentialFails ==
    (g.absent /\ ~accounts[lower(Login)].present) =>
        /\ ~g.net
        /\ ~g.got
        /\ pc = "reply" => /\ response.status = "error"
                           /\ steam_clients[Login] = NoClient

\* the header texts whose integer is an x value of the errors list
InCatalog(text) == Numeric(text) /\ int(text) \in errors

\* C11 (as claimed): once the x-eresult header of the credential submission
\* was read: an absent header fails the attempt; value 1 does not fail the
\* submission; any other value ends the attempt with no later step, with
\* the catalog entry of the value when the catalog has it and with the
\* generic fallback message when it has not.
C11_EResultHandling ==
    g.xer # "unread" =>
        /\ g.xer = None => g.lerr = LoginError("no_x_eresult", 0)
        /\ g.xer = "1" => g.lerr.kind \in {"none", "exception"}
        /\ g.xer # "1" =>
             /\ pc = "reply" /\ lstep = 0 /\ ~g.got
             /\ response = NoClientResponse
        /\ g.xer \notin {None, "1"} =>
             IF InCatalog(g.xer)
             THEN g.lerr = LoginError("eresult", int(g.xer))
             ELSE g.lerr.kind = "unknown_eresult"

\* C12 (as claimed): once the credential submission's response carried
\* x-eresult 1, client.login is not ended by an exception.
C12_EResultOneEstablishes ==
    g.xer = "1" => g.lerr = NoLoginError

\* C12 (amended): with x-eresult 1 the submission step does not raise and
\* the login goes on with the steps after it; login() has returned the
\* session only after x-eresult 1 was read and no step raised; an exception
\* after x-eresult 1 is the exception of a later step, and ends the attempt.
C12_EResultOneContinues ==
    /\ g.xer = "1" =>
         /\ g.lerr.kind \in {"none", "exception", "no_sessionid",
                             "no_sessionid_at_end"}
         /\ pc = "login" => LoginSteps[lstep] \notin {"warmup", "rsa", "submit"}
         /\ g.lerr # NoLoginError => pc = "reply" /\ ~g.got
    /\ pc = "probe_login" => g.xer = "1" /\ g.lerr = NoLoginError

\* C12 witness: login() has returned the session after x-eresult 1
C12_Witness ==
    /\ pc = "probe_login"
    /\ g.xer = "1"
    /\ g.cred = 1
    /\ g.lerr = NoLoginError

\* a step of the login attempt in progress: its position changes
LoginMove == pc = "login" /\ <<pc', lstep'>> # <<pc, lstep>>

\* the login attempt ends: login() returns (Established) or raises (Failed)
LoginEnds ==
    \/ pc' = "probe_login" /\ lstep = Len(LoginSteps) /\ lstep' = 0
       /\ g'.lerr = NoLoginError
    \/ pc' = "reply" /\ lstep' = 0 /\ g'.lerr # NoLoginError

Executing ==
    pc \in {"execute", "probe_cached", "read_creds", "probe_cookies", "login",
            "probe_login", "route", "attempt", "call", "reply"}

\* C14: for every login, at most one cookie resumption or full login is in
\* flight; an attempt is in flight exactly while the command being executed
\* is at a step of its resumption or login.
C14_OneAttemptInFlight ==
    \A l \in Spellings :
        /\ g.inflight[l] <= 1
        /\ g.inflight[l] = 1 <=>
             (pc \in {"probe_cookies", "login", "probe_login"} /\ Login = l)

\* C14 witness: a second attempt for a login is in flight, its first attempt
\* (the full login of the connection's first command) having ended
C14_Witness ==
    /\ pc = "probe_cookies"
    /\ nRecv = 2
    /\ accounts[lower(Login)].login_cookies = <<2>>
    /\ g.inflight[Login] = 1

\* C15: for every login, at most one command holds the login's handle, and
\* a command holds it only while it is the command being executed.
C15_OneCommandPerHandle ==
    \A l \in Spellings :
        /\ g.using[l] <= 1
        /\ g.using[l] = 1 =>
             /\ pc \in {"probe_cached", "route", "attempt", "call"}
             /\ Login = l

\* C15 witness: a handler runs on the cached handle that the previous
\* command for the same login ran on
C15_Witness ==
    /\ pc = "attempt"
    /\ prev.login = Login
    /\ prev.id = client.id
    /\ client = steam_clients[Login]
    /\ g.using[Login] = 1

\* C16 (as claimed): while a command is being executed (its session
\* creation, its remote calls and backoff sleeps, its reply), the agent can
\* take the next frame and start its command.
C16_NoStall ==
    (Executing /\ nRecv < MaxCmds) => ENABLED recv

\* C17: once websockets.connect has returned, the next thing connect does
\* is to send the manifest; the manifest is sent once, before any frame is
\* read and before any response is sent; every other frame the agent sends
\* is the response of the command it has just executed.
C17_ManifestOnceFirst ==
    [][/\ (pc = "connect" /\ pc' # pc) => pc' \in {"manifest", "closed"}
       /\ sent'.last = "manifest" =>
            /\ pc = "manifest" /\ pc' = "recv"
            /\ sent.manifests = 0 /\ sent'.manifests = 1
            /\ nRecv = 0
       /\ sent'.last = "response" =>
            /\ pc = "reply" /\ cur.decodes
            /\ Serializable(Frame)
            /\ sent'.manifests = 1
       /\ nRecv' # nRecv => sent.manifests = 1
       /\ sent'.manifests = sent.manifests \/ sent'.last = "manifest"]_vars

\* C17 witness: a response has just been sent on a connection whose
\* manifest was sent
C17_Witness ==
    /\ sent.last = "response"
    /\ sent.manifests = 1
    /\ nRecv > 0
    /\ pc = "recv"

\* a response by which the gateway signals that the agent is offline or
\* that the command could not be sent to it
OfflineSignal(r) ==
    /\ r.status = "error"
    /\ r.error # "absent"
    /\ \E i \in 1 .. Len(r.error) :
         r.error[i] \in {"Agent is offline", "Failed to send command"}

C19_MessageSurfaces ==
    \A c \in Callers :
        (bpc[c] = "raised" /\ bgot[c].origin = "agent") =>
            error_message(bgot[c]) = bgot[c].message

\* C20: however the get_pool calls of the threads of one process interleave,
\* the process constructs one pool at most, and a call that has returned
\* returned the one pool the process constructed, which is the pool stored
\* for the process.
C20_OnePoolPerProcess ==
    /\ created <= 1
    /\ \A t \in Threads :
         returned[t] # NoPool =>
            /\ created = 1
            /\ returned[t].pid = current_pid /\ returned[t].n = 1
            /\ returned[t] = instances[current_pid]

\* C20 witness: two threads both missed the check made without the lock,
\* went through the lock one after the other, and both calls have returned
C20_Witness ==
    \E t1, t2 \in Threads :
        /\ t1 # t2
        /\ path[t1] = "slow" /\ path[t2] = "slow"
        /\ returned[t1] # NoPool /\ returned[t2] # NoPool

\* the pids that have an entry in RedisManager._instances
Entries(inst) == {p \in Pids : inst[p] # NoPool}

\* C21: a get_pool call made in a forked process never returns a pool that
\* the process inherited: the pool it returns was constructed by the process
\* itself, and once a call has returned the dictionary holds one entry, under
\* the process's own pid.
C21_ChildBuildsOwnPool ==
    \A t \in Threads :
        returned[t] # NoPool =>
            /\ \A p \in Pids : returned[t] # inherited[p]
            /\ returned[t].pid = current_pid
            /\ Entries(instances) = {current_pid}

\* C21 witness: a process forked from a parent that had a pool has made a
\* get_pool call, which went through the lock and has returned
C21_Witness ==
    \E t \in Threads :
        /\ current_pid > 0
        /\ Entries(inherited) # {}
        /\ path[t] = "slow"
        /\ returned[t] # NoPool

\* _get_steam_client is past the cached entry and has not returned yet
Recreating == pc \in {"read_creds", "probe_cookies", "login", "probe_login"}

\* C22: the step in which the probe of a cached handle reports dead or raises
\* removes the login's entry before anything else is done; the entry stays
\* absent while the handle is being re-created; and when the re-creation
\* ends without a client the cache has no entry for the login.
C22_DeadHandleEvictedFirst ==
    /\ [][(pc = "probe_cached" /\ pc' \notin {"probe_cached", "route"}) =>
             /\ pc' = "read_creds"
             /\ steam_clients'[Login] = NoClient
             /\ g'.rsa = 0 /\ g'.cred = 0 /\ g'.logins = 0
             /\ g'.resumes = 0]_vars
    /\ []((g.evicted /\ Recreating) => steam_clients[Login] = NoClient)
    /\ []((g.evicted /\ pc = "reply" /\ ~g.got) =>
             steam_clients[Login] = NoClient)

\* C22 witness: the cached handle was evicted, the full login that followed
\* did not produce a client, and the error response is about to be sent
C22_Witness ==
    /\ pc = "reply"
    /\ g.evicted /\ ~g.got
    /\ g.logins = 1
    /\ steam_clients[Login] = NoClient

\* a step of the command executor, as opposed to an edit made from the GUI
ExecutorStep == nEdits' = nEdits /\ pc' # pc

\* the step in which the probe after a full login has returned alive
FreshLoginSucceeds == pc = "probe_login" /\ pc' = "route"

\* C23 (as claimed): a step of the executor changes the persisted cookies of a
\* login exactly when it is the step in which the fresh full login of that
\* login succeeds, and then the cookies written are those of the new session.
C23_CookiesWrittenIffLogin ==
    [][ExecutorStep =>
         \A l \in Logins :
            /\ accounts'[l] # accounts[l] <=> (FreshLoginSucceeds /\ l = lower(Login))
            /\ accounts'[l] # accounts[l] =>
                  accounts'[l].login_cookies = <<client'.id>>]_vars

\* C23 (amended): a step of the executor changes an accounts.json entry only
\* when it is the step in which the fresh full login of that login succeeds
\* and the entry exists; what changes is the entry's login_cookies, which
\* become the cookies of the session just probed alive. Every other step of
\* the executor leaves accounts.json as it is.
C23_CookiesWrittenOnlyOnLogin ==
    [][ExecutorStep =>
         \A l \in Logins :
            accounts'[l] # accounts[l] =>
               /\ FreshLoginSucceeds /\ l = lower(Login)
               /\ accounts[l].present
               /\ client'.origin = "login" /\ client'.probe = "alive"
               /\ accounts'[l] =
                    [accounts[l] EXCEPT !.login_cookies = <<client'.id>>]]_vars

\* C23 witness: a full login has just succeeded and the persisted cookies of
\* the login are those of the new session, which replaced older ones
C23_Witness ==
    /\ pc = "route"
    /\ g.logins = 1 /\ g.got
    /\ client.origin = "login"
    /\ client.id # 0
    /\ accounts[lower(Login)].login_cookies = <<client.id>>

\* the handles cached for the account that accounts.json keeps under key
HandlesOf(key) ==
    {l \in Spellings : lower(l) = key /\ steam_clients[l] # NoClient}

\* C24 (as claimed): in every state the cache holds at most one handle for
\* each login of accounts.json.
C24_OneHandlePerLogin ==
    \A key \in Logins : Cardinality(HandlesOf(key)) <= 1

\* the handlers the claim names: the inventories, the wallet balance, the
\* trade offer and the market handlers
RemoteCallCmds ==
    RetriedCmds \cup {"make_offer_with_url"} \cup
    {"market_fetch_price", "market_create_sell_order",
     "market_cancel_sell_order", "market_cancel_buy_order",
     "market_get_my_buy_orders", "market_get_my_sell_listings",
     "market_get_my_recent_sell_listings", "market_get_my_market_listings",
     "market_get_history"}

\* C25 (as claimed): a handler that makes a remote call answers with the
\* error of a failed call only after it has made the call 5 times.
C25_RemoteCallsRetried ==
    (/\ pc = "reply"
     /\ cur.cmd \in RemoteCallCmds
     /\ g.calls > 0
     /\ response.status = "error") => g.calls = MaxAttempts

\* C26: when the price endpoint answered 429, fetch_price raised
\* TooManyRequests and not the error of another failure, the handler made
\* that one request and no other, and its response has status error with the
\* text of the rate-limit error.
C26_RateLimitNotRetried ==
    (pc = "reply" /\ g.http = 429) =>
        /\ cur.cmd = "market_fetch_price"
        /\ g.exc = "TooManyRequests"
        /\ g.calls = 1
        /\ g.sleeps = << >>
        /\ response.status = "error"
        /\ response.message = RateLimitText
        /\ response # ExceptionResponse

\* C26 witness: the price endpoint answered 429 with a JSON body, and the
\* error response is about to be sent
C26_Witness ==
    /\ pc = "reply"
    /\ g.http = 429
    /\ g.exc = "TooManyRequests"
    /\ response.status = "error"

\* the call read the counters total and shown from the /market page of its
\* current pass
Saw(total, shown) ==
    /\ reqs.counters
    /\ n_total = total /\ n_showing = shown
    /\ mpc \notin {"get_market", "raised"}

\* C27 (as claimed): a call that read total = 250 and shown = 30 makes no
\* bulk render request, and when it returns it has made page requests and
\* its result holds the 250 listings.
C27_PagedMerge250 ==
    Saw(250, 30) =>
        /\ reqs.pass_render = 0
        /\ mpc # "get_render"
        /\ (mpc = "returned" /\ ~sell_listings.none) =>
              /\ reqs.pass_page > 0
              /\ sell_listings.ids = 1 .. 250

\* C28: a call that read total = 120 and shown = 30 makes no page request in
\* that pass; it makes its one bulk render request after the first page, and
\* when that request has been answered the result it returns holds the
\* listings of the first page and those of the bulk response, by listing id.
C28_BulkRender120 ==
    Saw(120, 30) =>
        /\ reqs.pass_page = 0
        /\ mpc # "get_page"
        /\ reqs.pass_render <= 1
        /\ mpc = "get_render" => reqs.pass_render = 0 /\ listings = 1 .. 30
        /\ mpc = "finish" => reqs.pass_render = 1
        /\ (mpc = "returned" /\ ~sell_listings.none) =>
              /\ reqs.pass_render = 1
              /\ sell_listings.ids =
                   Window(market, 0, 30) \cup Window(market, 30, -1)
              /\ Cardinality(sell_listings.ids) = 120

\* C28 witness: the call has returned the 120 listings after one /market
\* request and one render request
C28_Witness ==
    /\ mpc = "returned"
    /\ Saw(120, 30)
    /\ reqs.market = 1 /\ reqs.render = 1 /\ reqs.page = 0
    /\ sell_listings = Dict(1 .. 120)

\* C29: create_buy_order has returned only with a response whose success is
\* 1, got from its first request or from the second request sent after
\* confirm_by_id returned True, with the confirmation id of the first
\* response; when confirm_by_id returned False or raised, the call has raised
\* and the first request is the only one it sent.
C29_SuccessOnlyWhenConfirmed ==
    /\ posts <= 2
    /\ opc = "returned" =>
         /\ oresponse.success = 1
         /\ \/ posts = 1 /\ oresponse = first /\ confirmed = "none"
            \/ /\ posts = 2
               /\ first.success # 1 /\ first.need_confirmation
               /\ confirmed = "confirmed"
               /\ confirmation = first.confirmation_id
    /\ confirmed \in {"refused", "raise"} =>
         /\ opc = "raised"
         /\ posts = 1

\* C29 witness: the order needed a confirmation, confirm_by_id returned
\* False, and the call has raised
C29_Witness ==
    /\ opc = "raised"
    /\ first.need_confirmation
    /\ confirmed = "refused"
    /\ posts = 1

\* a step that delivers a notification with connected=False
NotifiesFalse ==
    status' = [status EXCEPT !.last = "False", !.falses = @ + 1]

\* C30: every loss of connectivity is notified with connected=False: the
\* step in which connect() returns while no disconnect() was called (the
\* connect failed, or the connection was closed or timed out) delivers one,
\* and so does the step that ends a disconnect(). connected=True is
\* delivered only by the step in which the connection is established. Once
\* connect() has returned and no disconnect() is under way, the last
\* notification delivered is False.
C30_LossNotifiesFalse ==
    /\ [][/\ (pc # "closed" /\ pc' = "closed" /\ spc = "idle") => NotifiesFalse
          /\ (spc # "done" /\ spc' = "done") => NotifiesFalse
          /\ status'.trues # status.trues =>
                /\ pc = "connect" /\ pc' = AfterConnect
                /\ websocket' = "open"
                /\ status'.last = "True"]_vars
    /\ []((pc = "closed" /\ spc # "closing") => status.last = "False")

\* C30 witness: the agent was stopped while a command was executing; the
\* loop ended without a notification of its own and disconnect() delivered
\* the only False after the True
C30_Witness ==
    /\ pc = "closed"
    /\ spc = "done"
    /\ nRecv >= 1
    /\ status = [last |-> "False", trues |-> 1, falses |-> 1]

\* C31 (as claimed): a pass of the paged branch whose page requests were all
\* answered is not followed by another attempt, and a call that returns
\* from such a pass returns the map accumulated from the first page and the
\* fetched pages, never None.
C31_PagedSinglePass ==
    /\ ~reqs.again
    /\ (mpc = "returned" /\ reqs.pass_page > 0) =>
          sell_listings = Dict(listings)

\* C32 (as claimed): a call that read total = shown from the /market page
\* makes no render and no page request in that pass, and returns the
\* listings of the first page.
C32_NoPaginationWhenAllShown ==
    (reqs.counters /\ n_total = n_showing /\ mpc \notin {"get_market", "raised"}) =>
        /\ reqs.pass_render = 0 /\ reqs.pass_page = 0
        /\ mpc \notin {"get_render", "get_page"}
        /\ mpc = "returned" =>
              sell_listings = Dict(Window(market, 0, n_showing))

\* C33 (as claimed): a command whose name is one the bridge publishes is
\* never answered with the dispatcher's unknown-command error.
C33_PublishedCmdsRouted ==
    (pc = "reply" /\ cur.cmd \in PublishedCmds) =>
        response.message # "unknown_cmd"

\* the command being executed awaits a remote call made on its handle: the
\* probe of the cached handle, a single call, the first call of a retry loop
CallInFlight ==
    /\ client # NoClient
    /\ \/ pc \in {"probe_cached", "call"}
       \/ pc = "attempt" /\ attempt = 1

\* C34 (as claimed): cleanup has not called logout on the handle on which
\* the command being executed has a remote call in flight.
C34_NoLogoutUnderCommand ==
    CallInFlight => client.id \notin logged_out

\* C35 (as claimed): once cleanup has completed the session cache holds no
\* handle (no command is received on the closed connection afterwards).
C35_CacheEmptyAfterCleanup ==
    spc = "done" => \A l \in Spellings : steam_clients[l] = NoClient

\* C36 (as claimed): a get_pool call that has returned returned a pool
\* that connects to the host, port and db the call was made with.
C36_PoolForRequestedParams ==
    \A t \in Threads :
        returned[t] # NoPool => returned[t].to = asked[t]

\* C37 (as claimed): no finalizelogin request is sent by a login whose poll
\* step gave an empty refresh token.
C37_FinalizeNeedsToken ==
    g.token = "" => g.fin = 0

\* the login step about to run
Step == IF pc = "login" THEN LoginSteps[lstep] ELSE "none"

\* C38: a login makes six RSA key fetches at most. The fetch is repeated,
\* with its warm-up, only after a response without the fields and only
\* while fewer than five repetitions were made; the attempt fails for the
\* missing key exactly when the sixth fetch lacks the fields too; and a
\* fetch after which the login goes on to the submission is not repeated.
C38_RsaFetchRetried ==
    [][/\ Step = "rsa" =>
            /\ (pc' = "login" /\ lstep' = 1) =>
                  /\ g.reps < MaxRepetitions
                  /\ g'.reps = g.reps + 1
            /\ g'.lerr.kind = "no_rsa_key" =>
                  /\ g.reps = MaxRepetitions /\ g.rsa = MaxRepetitions
                  /\ pc' = "reply" /\ response'.status = "error"
            /\ (pc' = "login" /\ lstep' > lstep) =>
                  /\ LoginSteps[lstep'] = "submit"
                  /\ g'.reps = g.reps
       /\ g'.rsa <= MaxRepetitions + 1
       /\ g'.reps <= MaxRepetitions
       /\ pc' = "login" => g'.rsa \in {g'.reps, g'.reps + 1}]_vars

\* C38 witness: the attempt has failed for the missing RSA key
C38_Witness ==
    /\ pc = "reply"
    /\ g.lerr = LoginError("no_rsa_key", 0)
    /\ response.status = "error"

\* C39: when the sessionid cookie is absent as _finalize_login reads it, no
\* finalizelogin request is sent and the attempt has failed; when it is
\* absent after the GET of set_sessionid_cookies, the attempt has failed;
\* in both cases the command is answered with an error and no handle is
\* returned or cached for the login.
C39_SessionIdRequired ==
    /\ g.sid = "absent" => g.fin = 0
    /\ (g.sid = "absent" \/ g.sidEnd = "absent") =>
          /\ pc = "reply"
          /\ response.status = "error"
          /\ ~g.got
          /\ client = NoClient
          /\ steam_clients[cur.account_login] = NoClient

\* C39 witness: the finalizelogin request was sent, and the cookie was
\* absent after the final GET
C39_Witness ==
    /\ pc = "reply"
    /\ g.sid = "present" /\ g.fin = 1
    /\ g.sidEnd = "absent"

\* C40: the listen loop ends only in a step that reports the connection
\* closed, or after disconnect() was called. A frame that does not decode
\* leaves the loop waiting for the next frame, a frame that decodes is
\* dispatched, and a response that cannot be serialized is dropped and the
\* loop waits for the next frame.
C40_LoopSurvivesFailures ==
    [][/\ (Executing \/ pc = "recv") /\ pc' = "closed" =>
            NotifiesFalse \/ spc # "idle"
       /\ (pc = "recv" /\ nRecv' # nRecv) =>
            IF cur'.decodes
            THEN pc' = "execute"
            ELSE pc' = "recv" /\ websocket' = "open"
       /\ (pc = "reply" /\ pc' # pc /\ ~Serializable(Frame) /\ spc = "idle") =>
            pc' = "recv" /\ websocket' = "open"]_vars

\* C40 witness: after a frame that did not decode, or a response that could
\* not be serialized, the loop waits for the next frame on the open
\* connection
C40_Witness ==
    /\ pc = "recv"
    /\ nRecv >= 1
    /\ sent.last = "none"
    /\ websocket = "open" /\ is_running

====
